---- MODULE Spec2Model ----
(***************************************************************************)
(* pdfthis (src/worker.js): a Worker whose fetch handler builds a PDF from *)
(* the query parameters of the request.  The model follows the handler     *)
(* statement by statement: the cursor y, the page list, the draw helpers   *)
(* (drawTitle, drawSectionHeader, drawWrapped), the word wrap (wrapText)   *)
(* and the text preprocessing (processText).                               *)
(*                                                                         *)
(* A JavaScript string is modelled as the sequence of its UTF-16 code      *)
(* units (natural numbers), so that a character range such as 0x20..0x7E   *)
(* and slice(0, n) are computed as the code computes them.  Widths are in  *)
(* thousandths of a point, which keeps the font arithmetic exact.          *)
(***************************************************************************)
EXTENDS Integers, Sequences, FiniteSets, TLC

VARIABLES
  req,         \* the request: its query parameters and its path
  pc,          \* the statement of the handler that runs next
  ret,         \* the statement that follows the drawWrapped under way
  idx,         \* the index of the forEach / for-of loop under way
  lines,       \* the lines drawWrapped has still to draw
  y,           \* the cursor
  page,        \* the page drawn on (its number)
  pages,       \* how many pages the document has
  useUnicode,  \* the flag of the same name
  lastOp,      \* the operation that ran last
  prevDraw,    \* the drawText before the last one
  lastDraw,    \* the last drawText: what, where
  log,         \* the calls of drawTitle, drawSectionHeader, drawWrapped so far
  status,      \* the status of the response, 0 before it
  failed       \* the library call that raised, "none" if none did

vars ==
  <<req, pc, ret, idx, lines, y, page, pages, useUnicode, lastOp,
    prevDraw, lastDraw, log, status, failed>>

(***************************************************************************)
(* Program constants.                                                      *)
(***************************************************************************)
width == 612
height == 792
margin == 50
lineHeight == 18
bodySize == 12
MAX_PARAMS == 50
MAX_VALUE_LEN == 500

maxTextWidth == width - margin * 2

(***************************************************************************)
(* Bounds of the model.                                                    *)
(***************************************************************************)
\* most non-reserved parameters of a request
MaxExtras == 52
\* most parameters of a request that carry an over-long value
MaxLong == 2
\* most non-reserved parameters of the requests that vary title and text
MaxFew == 2
\* longest request path after the leading "/"
MaxPathLen == 80
\* how far a value may exceed MAX_VALUE_LEN
MaxOver == 1
\* longest text of the exhaustive word-wrap inputs
MaxWrapLen == 4
\* most words of the long word-wrap inputs
MaxWords == 3

(***************************************************************************)
(* Strings and loops.                                                      *)
(***************************************************************************)
Rep(c, n) == [j \in 1..n |-> c]

\* String.prototype.slice(0, n)
Slice(s, n) == SubSeq(s, 1, IF n < Len(s) THEN n ELSE Len(s))

\* the decimal digits of n, as a template literal ${n} prints them
RECURSIVE Digits(_)
Digits(n) ==
  IF n < 10 THEN <<48 + n>> ELSE Append(Digits(n \div 10), 48 + (n % 10))

\* the concatenation of the strings ss[lo], ..., ss[hi]
RECURSIVE Flatten(_, _, _)
Flatten(ss, lo, hi) ==
  IF lo > hi THEN <<>>
  ELSE IF lo = hi THEN ss[lo]
  ELSE LET mid == (lo + hi) \div 2
       IN  Flatten(ss, lo, mid) \o Flatten(ss, mid + 1, hi)

(***************************************************************************)
(* processText and the "?" fallback.                                       *)
(***************************************************************************)
\* the character class [ -~]
IsPrintable(c) == c >= 32 /\ c <= 126

\* the transliteration table; <<>> stands for a missing entry (undefined)
arabicToLatin(c) ==
  CASE c = 1575 -> <<65>>
    [] c = 1576 -> <<66>>
    [] c = 1578 -> <<84>>
    [] c = 1579 -> <<84, 72>>
    [] c = 1580 -> <<74>>
    [] c = 1581 -> <<72>>
    [] c = 1582 -> <<75, 72>>
    [] c = 1583 -> <<68>>
    [] c = 1584 -> <<68, 72>>
    [] c = 1585 -> <<82>>
    [] c = 1586 -> <<90>>
    [] c = 1587 -> <<83>>
    [] c = 1588 -> <<83, 72>>
    [] c = 1589 -> <<83>>
    [] c = 1590 -> <<68>>
    [] c = 1591 -> <<84>>
    [] c = 1592 -> <<90>>
    [] c = 1593 -> <<65>>
    [] c = 1594 -> <<71, 72>>
    [] c = 1601 -> <<70>>
    [] c = 1602 -> <<81>>
    [] c = 1603 -> <<75>>
    [] c = 1604 -> <<76>>
    [] c = 1605 -> <<77>>
    [] c = 1606 -> <<78>>
    [] c = 1577 -> <<84>>
    [] c = 1600 -> <<45>>
    [] c = 1607 -> <<72>>
    [] c = 1608 -> <<87>>
    [] c = 1610 -> <<89>>
    [] c = 1609 -> <<65>>
    [] c = 1574 -> <<65>>
    [] c = 1569 -> <<65>>
    [] c = 1573 -> <<69>>
    [] OTHER -> <<>>

\* the replace callback: arabicToLatin[char] || '?'
Translit(c) ==
  IF IsPrintable(c) THEN <<c>>
  ELSE IF arabicToLatin(c) # <<>> THEN arabicToLatin(c) ELSE <<63>>

processText(text, uni) ==
  IF text = <<>> THEN text
  ELSE IF uni THEN text
  ELSE Flatten([j \in 1..Len(text) |-> Translit(text[j])], 1, Len(text))

QuestionMark(c) == IF IsPrintable(c) THEN <<c>> ELSE <<63>>

\* line.replace(/[^ -~]/g, '?')
Fallback(line) ==
  Flatten([j \in 1..Len(line) |-> QuestionMark(line[j])], 1, Len(line))

(***************************************************************************)
(* The font.  Helvetica's advance widths (thousandths of the font size)    *)
(* for the code units 32..126; the library raises for a character the      *)
(* font's encoding lacks, and every code unit outside 32..126 is taken as  *)
(* such a character.  Kerning is left out.                                 *)
(***************************************************************************)
HelveticaWidths ==
  <<278, 278, 355, 556, 556, 889, 667, 191, 333, 333, 389, 584, 278, 333,
    278, 278, 556, 556, 556, 556, 556, 556, 556, 556, 556, 556, 278, 278,
    584, 584, 584, 556, 1015, 667, 667, 722, 722, 667, 611, 778, 722, 278,
    500, 667, 556, 833, 722, 778, 667, 778, 722, 667, 611, 722, 667, 944,
    667, 667, 611, 278, 278, 278, 469, 556, 333, 556, 556, 500, 556, 556,
    278, 556, 556, 222, 222, 500, 222, 833, 556, 556, 556, 556, 333, 500,
    278, 556, 500, 722, 500, 500, 500, 334, 260, 334, 584>>

GlyphWidth(c) == HelveticaWidths[c - 31]

CanEncode(t) == \A j \in 1..Len(t) : IsPrintable(t[j])

RECURSIVE GlyphSum(_, _, _)
GlyphSum(t, lo, hi) ==
  IF lo > hi THEN 0
  ELSE IF lo = hi THEN GlyphWidth(t[lo])
  ELSE LET mid == (lo + hi) \div 2
       IN  GlyphSum(t, lo, mid) + GlyphSum(t, mid + 1, hi)

\* fnt.widthOfTextAtSize(t, size): the width, or a raised error
widthOfTextAtSize(t, size) ==
  IF CanEncode(t) THEN [ok |-> TRUE, w |-> GlyphSum(t, 1, Len(t)) * size]
  ELSE [ok |-> FALSE, w |-> 0]

\* try { return fnt.widthOfTextAtSize(t, size) } catch { t.length*size*0.6 }
textWidth(t, size) ==
  LET r == widthOfTextAtSize(t, size)
  IN  IF r.ok THEN r.w ELSE Len(t) * size * 600

(***************************************************************************)
(* wrapText.                                                               *)
(***************************************************************************)
\* the class \s of a regular expression
IsSpace(c) ==
  \/ c \in {9, 10, 11, 12, 13, 32, 160, 5760, 8232, 8233, 8239, 8287,
            12288, 65279}
  \/ (c >= 8192 /\ c <= 8202)

\* for (const e of s) st = LoopStep(loop, st, e), over s[lo..hi]; loop names
\* the body: "split", "chunk" or "word".  The halves are evaluated left to
\* right, so the evaluation depth is logarithmic.
RECURSIVE Fold(_, _, _, _, _)

SplitStep(st, c) ==
  IF IsSpace(c)
  THEN IF st.inSep THEN st
       ELSE [words |-> Append(st.words, st.cur), cur |-> <<>>, inSep |-> TRUE]
  ELSE [st EXCEPT !.cur = Append(st.cur, c), !.inSep = FALSE]

\* current ? current + " " + w : w
AttemptNoSpace(current, w) == current \o w

Attempt(current, w) == IF current # <<>> THEN current \o <<32>> \o w ELSE w

\* textWidth(t) <= maxWidth
FitsStale(t, maxWidth, size) ==
  textWidth(SubSeq(t, 1, Len(t) - 1), size) <= maxWidth * 1000

Fits(t, maxWidth, size) == textWidth(t, size) <= maxWidth * 1000

\* for (const ch of w): one character of the hard split
ChunkStep(st, ch, maxWidth, size) ==
  LET attemptChunk == Append(st.chunk, ch)
  IN  IF Fits(attemptChunk, maxWidth, size)
      THEN [st EXCEPT !.chunk = attemptChunk]
      ELSE [chunk |-> <<ch>>,
            out |-> IF st.chunk # <<>> THEN Append(st.out, st.chunk)
                    ELSE st.out]

\* for (const w of words): one word
WordStep(st, w, maxWidth, size) ==
  LET attempt == Attempt(st.current, w)
  IN  IF Fits(attempt, maxWidth, size)
      THEN [st EXCEPT !.current = attempt]
      ELSE LET pushed == IF st.current # <<>>
                         THEN Append(st.out, st.current) ELSE st.out
               r == Fold([op |-> "chunk", maxWidth |-> maxWidth, size |-> size],
                         w, 1, Len(w), [chunk |-> <<>>, out |-> pushed])
           IN  [current |-> r.chunk, out |-> r.out]

LoopStep(loop, st, e) ==
  CASE loop.op = "split" -> SplitStep(st, e)
    [] loop.op = "chunk" -> ChunkStep(st, e, loop.maxWidth, loop.size)
    [] loop.op = "word" -> WordStep(st, e, loop.maxWidth, loop.size)

Fold(loop, s, lo, hi, st) ==
  IF lo > hi THEN st
  ELSE IF lo = hi THEN LoopStep(loop, st, s[lo])
  ELSE LET mid == (lo + hi) \div 2
           left == Fold(loop, s, lo, mid, st)
       IN  IF left = left THEN Fold(loop, s, mid + 1, hi, left) ELSE left

\* String(text).split(/\s+/)
Split(text) ==
  LET r == Fold([op |-> "split"], text, 1, Len(text),
                [words |-> <<>>, cur |-> <<>>, inSep |-> FALSE])
  IN  Append(r.words, r.cur)

wrapText(text, maxWidth, size, uni) ==
  LET words == Split(processText(text, uni))
      r == Fold([op |-> "word", maxWidth |-> maxWidth, size |-> size],
                words, 1, Len(words), [current |-> <<>>, out |-> <<>>])
  IN  IF r.current # <<>> THEN Append(r.out, r.current) ELSE r.out

(***************************************************************************)
(* Literal strings of the handler.                                         *)
(***************************************************************************)
\* "PDF"
TitleDefault ==
  <<80, 68, 70>>

\* "title"
KeyTitle ==
  <<116, 105, 116, 108, 101>>

\* "text"
KeyText ==
  <<116, 101, 120, 116>>

\* " = "
KvSeparator ==
  <<32, 61, 32>>

\* "PDF Generator with Unicode Support"
InstrTitle ==
  <<80, 68, 70, 32, 71, 101, 110, 101, 114, 97, 116, 111, 114, 32, 119, 105,
    116, 104, 32, 85, 110, 105, 99, 111, 100, 101, 32, 83, 117, 112, 112, 111,
    114, 116>>

\* "Purpose"
HdrPurpose ==
  <<80, 117, 114, 112, 111, 115, 101>>

\* "This service provides a PDF file that can handle Unicode characters including Arabic text. Text is customized using URL parameters."
PurposeText ==
  <<84, 104, 105, 115, 32, 115, 101, 114, 118, 105, 99, 101, 32, 112, 114, 111,
    118, 105, 100, 101, 115, 32, 97, 32, 80, 68, 70, 32, 102, 105, 108, 101,
    32, 116, 104, 97, 116, 32, 99, 97, 110, 32, 104, 97, 110, 100, 108, 101,
    32, 85, 110, 105, 99, 111, 100, 101, 32, 99, 104, 97, 114, 97, 99, 116,
    101, 114, 115, 32, 105, 110, 99, 108, 117, 100, 105, 110, 103, 32, 65, 114,
    97, 98, 105, 99, 32, 116, 101, 120, 116, 46, 32, 84, 101, 120, 116, 32,
    105, 115, 32, 99, 117, 115, 116, 111, 109, 105, 122, 101, 100, 32, 117,
    115, 105, 110, 103, 32, 85, 82, 76, 32, 112, 97, 114, 97, 109, 101, 116,
    101, 114, 115, 46>>

\* "Use Cases"
HdrUseCases ==
  <<85, 115, 101, 32, 67, 97, 115, 101, 115>>

\* "- Generate PDFs with multilingual content"
UseCase1 ==
  <<45, 32, 71, 101, 110, 101, 114, 97, 116, 101, 32, 80, 68, 70, 115, 32, 119,
    105, 116, 104, 32, 109, 117, 108, 116, 105, 108, 105, 110, 103, 117, 97,
    108, 32, 99, 111, 110, 116, 101, 110, 116>>

\* "- Support Arabic, Hebrew, and other RTL languages"
UseCase2 ==
  <<45, 32, 83, 117, 112, 112, 111, 114, 116, 32, 65, 114, 97, 98, 105, 99, 44,
    32, 72, 101, 98, 114, 101, 119, 44, 32, 97, 110, 100, 32, 111, 116, 104,
    101, 114, 32, 82, 84, 76, 32, 108, 97, 110, 103, 117, 97, 103, 101, 115>>

\* "- Echo URL parameters as text with Unicode support"
UseCase3 ==
  <<45, 32, 69, 99, 104, 111, 32, 85, 82, 76, 32, 112, 97, 114, 97, 109, 101,
    116, 101, 114, 115, 32, 97, 115, 32, 116, 101, 120, 116, 32, 119, 105, 116,
    104, 32, 85, 110, 105, 99, 111, 100, 101, 32, 115, 117, 112, 112, 111, 114,
    116>>

\* "- Test international character handling"
UseCase4 ==
  <<45, 32, 84, 101, 115, 116, 32, 105, 110, 116, 101, 114, 110, 97, 116, 105,
    111, 110, 97, 108, 32, 99, 104, 97, 114, 97, 99, 116, 101, 114, 32, 104,
    97, 110, 100, 108, 105, 110, 103>>

\* "Example Usage"
HdrExample ==
  <<69, 120, 97, 109, 112, 108, 101, 32, 85, 115, 97, 103, 101>>

\* "?title=\u0645\u0631\u062D\u0628\u0627&text=This%20is%20Arabic:%20\u0627\u0644\u0633\u0644\u0627\u0645%20\u0639\u0644\u064A\u0643\u0645"
exampleQuery ==
  <<63, 116, 105, 116, 108, 101, 61, 1605, 1585, 1581, 1576, 1575, 38, 116,
    101, 120, 116, 61, 84, 104, 105, 115, 37, 50, 48, 105, 115, 37, 50, 48, 65,
    114, 97, 98, 105, 99, 58, 37, 50, 48, 1575, 1604, 1587, 1604, 1575, 1605,
    37, 50, 48, 1593, 1604, 1610, 1603, 1605>>

\* "Notes"
HdrNotes ==
  <<78, 111, 116, 101, 115>>

\* "- Each value is limited to "
NotePre1 ==
  <<45, 32, 69, 97, 99, 104, 32, 118, 97, 108, 117, 101, 32, 105, 115, 32, 108,
    105, 109, 105, 116, 101, 100, 32, 116, 111, 32>>

\* " characters."
NotePost1 ==
  <<32, 99, 104, 97, 114, 97, 99, 116, 101, 114, 115, 46>>

\* "- Up to "
NotePre2 ==
  <<45, 32, 85, 112, 32, 116, 111, 32>>

\* " URL parameters are rendered."
NotePost2 ==
  <<32, 85, 82, 76, 32, 112, 97, 114, 97, 109, 101, 116, 101, 114, 115, 32, 97,
    114, 101, 32, 114, 101, 110, 100, 101, 114, 101, 100, 46>>

\* "- Full Unicode support enabled"
NoteUnicodeOn ==
  <<45, 32, 70, 117, 108, 108, 32, 85, 110, 105, 99, 111, 100, 101, 32, 115,
    117, 112, 112, 111, 114, 116, 32, 101, 110, 97, 98, 108, 101, 100>>

\* "- Unicode characters are transliterated to Latin equivalents"
NoteUnicodeOff ==
  <<45, 32, 85, 110, 105, 99, 111, 100, 101, 32, 99, 104, 97, 114, 97, 99, 116,
    101, 114, 115, 32, 97, 114, 101, 32, 116, 114, 97, 110, 115, 108, 105, 116,
    101, 114, 97, 116, 101, 100, 32, 116, 111, 32, 76, 97, 116, 105, 110, 32,
    101, 113, 117, 105, 118, 97, 108, 101, 110, 116, 115>>

\* "- RTL languages may not render in proper direction without additional setup"
NoteRtl ==
  <<45, 32, 82, 84, 76, 32, 108, 97, 110, 103, 117, 97, 103, 101, 115, 32, 109,
    97, 121, 32, 110, 111, 116, 32, 114, 101, 110, 100, 101, 114, 32, 105, 110,
    32, 112, 114, 111, 112, 101, 114, 32, 100, 105, 114, 101, 99, 116, 105,
    111, 110, 32, 119, 105, 116, 104, 111, 117, 116, 32, 97, 100, 100, 105,
    116, 105, 111, 110, 97, 108, 32, 115, 101, 116, 117, 112>>

\* "Disclaimer"
HdrDisclaimer ==
  <<68, 105, 115, 99, 108, 97, 105, 109, 101, 114>>

\* "This PDF file is for testing purposes. Content is rendered directly from URL parameters."
InstrDisclaimer ==
  <<84, 104, 105, 115, 32, 80, 68, 70, 32, 102, 105, 108, 101, 32, 105, 115,
    32, 102, 111, 114, 32, 116, 101, 115, 116, 105, 110, 103, 32, 112, 117,
    114, 112, 111, 115, 101, 115, 46, 32, 67, 111, 110, 116, 101, 110, 116, 32,
    105, 115, 32, 114, 101, 110, 100, 101, 114, 101, 100, 32, 100, 105, 114,
    101, 99, 116, 108, 121, 32, 102, 114, 111, 109, 32, 85, 82, 76, 32, 112,
    97, 114, 97, 109, 101, 116, 101, 114, 115, 46>>

\* "Extra information"
HdrExtra ==
  <<69, 120, 116, 114, 97, 32, 105, 110, 102, 111, 114, 109, 97, 116, 105, 111,
    110>>

\* "Note: Showing first "
CapNotePre ==
  <<78, 111, 116, 101, 58, 32, 83, 104, 111, 119, 105, 110, 103, 32, 102, 105,
    114, 115, 116, 32>>

\* " parameters (excluding title/text)."
CapNotePost ==
  <<32, 112, 97, 114, 97, 109, 101, 116, 101, 114, 115, 32, 40, 101, 120, 99,
    108, 117, 100, 105, 110, 103, 32, 116, 105, 116, 108, 101, 47, 116, 101,
    120, 116, 41, 46>>

\* "This PDF supports Unicode characters. Content is rendered from URL parameters."
DisclaimerUnicode ==
  <<84, 104, 105, 115, 32, 80, 68, 70, 32, 115, 117, 112, 112, 111, 114, 116,
    115, 32, 85, 110, 105, 99, 111, 100, 101, 32, 99, 104, 97, 114, 97, 99,
    116, 101, 114, 115, 46, 32, 67, 111, 110, 116, 101, 110, 116, 32, 105, 115,
    32, 114, 101, 110, 100, 101, 114, 101, 100, 32, 102, 114, 111, 109, 32, 85,
    82, 76, 32, 112, 97, 114, 97, 109, 101, 116, 101, 114, 115, 46>>

\* "Unicode characters are transliterated. Content is rendered from URL parameters."
DisclaimerTranslit ==
  <<85, 110, 105, 99, 111, 100, 101, 32, 99, 104, 97, 114, 97, 99, 116, 101,
    114, 115, 32, 97, 114, 101, 32, 116, 114, 97, 110, 115, 108, 105, 116, 101,
    114, 97, 116, 101, 100, 46, 32, 67, 111, 110, 116, 101, 110, 116, 32, 105,
    115, 32, 114, 101, 110, 100, 101, 114, 101, 100, 32, 102, 114, 111, 109,
    32, 85, 82, 76, 32, 112, 97, 114, 97, 109, 101, 116, 101, 114, 115, 46>>

\* "https://pdfthis.timers.workers.dev"
Origin ==
  <<104, 116, 116, 112, 115, 58, 47, 47, 112, 100, 102, 116, 104, 105, 115, 46,
    116, 105, 109, 101, 114, 115, 46, 119, 111, 114, 107, 101, 114, 115, 46,
    100, 101, 118>>

(***************************************************************************)
(* The request.  A request is described by its reserved entries before     *)
(* (pre) and after (post) a run of k non-reserved entries, the last m of   *)
(* which carry an over-long value, and by the length of its path.  With    *)
(* dup, entries 2j-1 and 2j share their key.  A reserved entry gives its   *)
(* value as runs <<character, count>>.                                     *)
(***************************************************************************)
RunText(run) == Rep(run[1], run[2])

Expand(runs) ==
  Flatten([j \in 1..Len(runs) |-> RunText(runs[j])], 1, Len(runs))

Entry(e) == [key |-> e.key, val |-> Expand(e.runs)]

FillerKey(j, dup) == <<107>> \o Digits(IF dup THEN (j + 1) \div 2 ELSE j)

FillerVal(j, k, m) ==
  IF j > k - m THEN Rep(87, MAX_VALUE_LEN + MaxOver) ELSE <<118>> \o Digits(j)

\* Array.from(url.searchParams.entries())
params(r) ==
  [j \in 1..Len(r.pre) |-> Entry(r.pre[j])]
  \o [j \in 1..r.k |->
        [key |-> FillerKey(j, r.dup), val |-> FillerVal(j, r.k, r.m)]]
  \o [j \in 1..Len(r.post) |-> Entry(r.post[j])]

\* url.pathname
pathname(r) == <<47>> \o Rep(97, r.path)

IsKey(e, key) == e.key = key

\* url.searchParams.get(key): <<>> for null, <<v>> for the first value
searchParamsGetLast(ps, key) ==
  LET hits == SelectSeq(ps, LAMBDA e : IsKey(e, key))
  IN  IF hits = <<>> THEN <<>> ELSE <<hits[Len(hits)].val>>

searchParamsGet(ps, key) ==
  LET hits == SelectSeq(ps, LAMBDA e : IsKey(e, key))
  IN  IF hits = <<>> THEN <<>> ELSE <<hits[1].val>>

\* url.searchParams.has(key)
searchParamsHas(ps, key) == \E j \in 1..Len(ps) : IsKey(ps[j], key)

\* a value in a boolean position: neither null nor ""
Truthy(opt) == opt # <<>> /\ opt[1] # <<>>

titleParam(ps) ==
  LET g == searchParamsGet(ps, KeyTitle)
  IN  IF Truthy(g) THEN g[1] ELSE TitleDefault

textParam(ps) == searchParamsGet(ps, KeyText)

IsExtra(e) == e.key # KeyTitle /\ e.key # KeyText

extraParams(ps) == Slice(SelectSeq(ps, IsExtra), MAX_PARAMS)

\* the condition of the "Showing first ..." note
NoteShown(ps) ==
  Len(ps) - (IF searchParamsHas(ps, KeyTitle) THEN 1 ELSE 0)
          - (IF searchParamsHas(ps, KeyText) THEN 1 ELSE 0) > MAX_PARAMS

\* `${key} = ${val}` with val = (rawVal ?? "").slice(0, MAX_VALUE_LEN)
KvText(e) == e.key \o KvSeparator \o Slice(e.val, MAX_VALUE_LEN)

CapNote == CapNotePre \o Digits(MAX_PARAMS) \o CapNotePost

\* url.origin.replace(/\/$/, "")
StripSlash(s) ==
  IF s # <<>> /\ s[Len(s)] = 47 THEN SubSeq(s, 1, Len(s) - 1) ELSE s

ExampleUrl(r) == StripSlash(Origin) \o pathname(r) \o exampleQuery

UseCases == <<UseCase1, UseCase2, UseCase3, UseCase4>>

Notes(uni) ==
  << NotePre1 \o Digits(MAX_VALUE_LEN) \o NotePost1,
     NotePre2 \o Digits(MAX_PARAMS) \o NotePost2,
     IF uni THEN NoteUnicodeOn ELSE NoteUnicodeOff,
     NoteRtl >>

(***************************************************************************)
(* The body of the handler, one statement per label.  A statement is a     *)
(* call of drawTitle, drawSectionHeader or drawWrapped, or a decrement of  *)
(* the cursor; next and nidx say where control goes after it.              *)
(***************************************************************************)
Title(text, next) ==
  [op |-> "title", text |-> text, amt |-> 0, next |-> next, nidx |-> 1]

Header(text, next) ==
  [op |-> "header", text |-> text, amt |-> 0, next |-> next, nidx |-> 1]

Wrapped(text, next, nidx) ==
  [op |-> "wrapped", text |-> text, amt |-> 0, next |-> next, nidx |-> nidx]

Space(amt, next) ==
  [op |-> "gap", text |-> <<>>, amt |-> amt, next |-> next, nidx |-> 1]

NoStmt == [op |-> "none", text |-> <<>>, amt |-> 0, next |-> "done", nidx |-> 1]

\* if (extraParams.length > 0) ... else the Disclaimer
AfterText(ps) == IF Len(extraParams(ps)) > 0 THEN "eExtraHdr" ELSE "eDiscHdr"

\* what follows the key = value loop and its spacing
AfterExtrasSkipsDisclaimer == "save"

AfterExtras == "eDiscHdr"

\* the instructions document (no parameter at all)
InstrStmt(r, label, i, uni) ==
  CASE label = "iTitle" -> Title(InstrTitle, "iPurposeHdr")
    [] label = "iPurposeHdr" -> Header(HdrPurpose, "iPurposeText")
    [] label = "iPurposeText" -> Wrapped(PurposeText, "iPurposeGap", 1)
    [] label = "iPurposeGap" -> Space(lineHeight, "iUseHdr")
    [] label = "iUseHdr" -> Header(HdrUseCases, "iUse")
    [] label = "iUse" ->
         IF i < Len(UseCases) THEN Wrapped(UseCases[i], "iUse", i + 1)
         ELSE Wrapped(UseCases[i], "iUseGap", 1)
    [] label = "iUseGap" -> Space(lineHeight, "iExHdr")
    [] label = "iExHdr" -> Header(HdrExample, "iExText")
    [] label = "iExText" -> Wrapped(ExampleUrl(r), "iExGap", 1)
    [] label = "iExGap" -> Space(lineHeight * 2, "iNotesHdr")
    [] label = "iNotesHdr" -> Header(HdrNotes, "iNotes")
    [] label = "iNotes" ->
         IF i < Len(Notes(uni)) THEN Wrapped(Notes(uni)[i], "iNotes", i + 1)
         ELSE Wrapped(Notes(uni)[i], "iNotesGap", 1)
    [] label = "iNotesGap" -> Space(lineHeight, "iDiscHdr")
    [] label = "iDiscHdr" -> Header(HdrDisclaimer, "iDiscText")
    [] label = "iDiscText" -> Wrapped(InstrDisclaimer, "save", 1)
    [] OTHER -> NoStmt

\* the parameters document
EchoStmt(r, label, i, uni) ==
  LET ps == params(r)
      extra == extraParams(ps)
  IN  CASE label = "eTitle" ->
             Title(titleParam(ps),
                   IF Truthy(textParam(ps)) THEN "eText" ELSE AfterText(ps))
        [] label = "eText" ->
             Wrapped(Slice(textParam(ps)[1], MAX_VALUE_LEN), "eTextGap", 1)
        [] label = "eTextGap" -> Space(lineHeight, AfterText(ps))
        [] label = "eExtraHdr" ->
             Header(HdrExtra, IF NoteShown(ps) THEN "eNote" ELSE "eKv")
        [] label = "eNote" -> Wrapped(CapNote, "eNoteGap", 1)
        [] label = "eNoteGap" -> Space(lineHeight, "eKv")
        [] label = "eKv" ->
             IF i < Len(extra) THEN Wrapped(KvText(extra[i]), "eKv", i + 1)
             ELSE Wrapped(KvText(extra[i]), "eKvGap", 1)
        [] label = "eKvGap" -> Space(lineHeight, AfterExtras)
        [] label = "eDiscHdr" -> Header(HdrDisclaimer, "eDiscText")
        [] label = "eDiscText" ->
             Wrapped(IF uni THEN DisclaimerUnicode ELSE DisclaimerTranslit,
                     "save", 1)
        [] OTHER -> NoStmt

\* if (params.length === 0) ... else ...
FirstStmt(r) == IF Len(params(r)) = 0 THEN "iTitle" ELSE "eTitle"

Stmt ==
  IF pc \in {"start", "drawWrapped", "save", "done", "wrapText", "wrapped"}
  THEN NoStmt
  ELSE IF Len(params(req)) = 0 THEN InstrStmt(req, pc, idx, useUnicode)
  ELSE EchoStmt(req, pc, idx, useUnicode)

(***************************************************************************)
(* The layout engine.                                                      *)
(***************************************************************************)
\* newPage(): y = height - margin (also the cursor's first value)
TopOfPageNoMargin == height

TopOfPage == height - margin

\* ensureSpace(needed): whether it calls newPage()
ensureSpaceNoMargin(cy, needed) == cy - needed < 0

ensureSpace(cy, needed) == cy - needed < margin

\* try { page.drawText(t) } catch { page.drawText(fallback) }: the text
\* drawn, or the error of the second call
drawText(t) ==
  IF CanEncode(t) THEN [ok |-> TRUE, text |-> t]
  ELSE LET fallbackLine == Fallback(t)
       IN  [ok |-> CanEncode(fallbackLine), text |-> fallbackLine]

\* the response: the PDF, or "Failed to generate PDF: ..." with status 500
RespondAlwaysOk(step) == 200

Respond(step) == IF step = "none" THEN 200 ELSE 500

NoDraw ==
  [kind |-> "none", blk |-> 0, page |-> 0, of |-> 0, y |-> 0, text |-> <<>>]

Finish(step) ==
  /\ pc' = "done"
  /\ status' = Respond(step)
  /\ failed' = step
  /\ UNCHANGED <<req, ret, idx, lines, y, page, pages, useUnicode, lastOp,
                 prevDraw, lastDraw, log>>

\* ensureSpace(needed); drawText(text) at y; y -= dy; then Rest.  blk is
\* the number of the block (the call logged) the text belongs to.
Draw(kind, blk, text, needed, dy, addOk, Rest) ==
  LET fresh == ensureSpace(y, needed)
      y1 == IF fresh THEN TopOfPage ELSE y
      p1 == IF fresh THEN pages + 1 ELSE page
      n1 == IF fresh THEN pages + 1 ELSE pages
  IN  IF fresh /\ ~addOk THEN Finish("addPage")
      ELSE \E d \in {drawText(text)} :
             IF ~d.ok THEN Finish("drawText")
             ELSE /\ page' = p1
                  /\ pages' = n1
                  /\ y' = y1 - dy
                  /\ lastOp' = kind
                  /\ prevDraw' = [lastDraw EXCEPT !.text = <<>>]
                  /\ lastDraw' = [kind |-> kind, blk |-> blk, page |-> p1,
                                  of |-> n1, y |-> y1, text |-> d.text]
                  /\ Rest
                  /\ UNCHANGED <<req, useUnicode, status, failed>>

Logged(s) == [op |-> s.op, at |-> pc, idx |-> idx, text |-> s.text]

\* PDFDocument.create(), addPage(), embedFont() twice; the first embedFont
\* is retried once in the catch block
Start ==
  /\ pc = "start"
  /\ \E createOk, addOk, embedOk, retryOk \in BOOLEAN :
       LET step == IF ~createOk THEN "create"
                   ELSE IF ~addOk THEN "addPage"
                   ELSE IF ~embedOk /\ ~retryOk THEN "embedFont"
                   ELSE "none"
       IN  IF step # "none" THEN Finish(step)
           ELSE /\ pc' = FirstStmt(req)
                /\ idx' = 1
                /\ page' = 1
                /\ pages' = 1
                /\ y' = TopOfPage
                /\ useUnicode' = FALSE
                /\ lastOp' = "start"
                /\ UNCHANGED <<req, ret, lines, prevDraw, lastDraw, log,
                               status, failed>>

DrawTitle ==
  \E s \in {Stmt} :
      /\ s.op = "title"
      /\ \E addOk \in BOOLEAN :
           Draw("title", Len(log) + 1, processText(s.text, useUnicode),
                lineHeight * 2, lineHeight * 2, addOk,
                /\ pc' = s.next
                /\ idx' = s.nidx
                /\ log' = Append(log, Logged(s))
                /\ UNCHANGED <<ret, lines>>)

DrawSectionHeader ==
  \E s \in {Stmt} :
      /\ s.op = "header"
      /\ \E addOk \in BOOLEAN :
           Draw("header", Len(log) + 1, processText(s.text, useUnicode),
                lineHeight * 2, (lineHeight * 3) \div 2, addOk,
                /\ pc' = s.next
                /\ idx' = s.nidx
                /\ log' = Append(log, Logged(s))
                /\ UNCHANGED <<ret, lines>>)

\* drawWrapped: const lines = wrapText(text, maxWidth, fnt, size)
DrawWrapped ==
  \E s \in {Stmt} :
      /\ s.op = "wrapped"
      /\ \E wrapped \in {wrapText(s.text, maxTextWidth, bodySize, useUnicode)} :
           /\ lines' = wrapped
           /\ pc' = IF wrapped = <<>> THEN s.next ELSE "drawWrapped"
      /\ ret' = s.next
      /\ idx' = s.nidx
      /\ log' = Append(log, Logged(s))
      /\ lastOp' = "wrapText"
      /\ UNCHANGED <<req, y, page, pages, useUnicode, prevDraw, lastDraw,
                     status, failed>>

\* drawWrapped: one turn of for (const line of lines)
DrawLine ==
  /\ pc = "drawWrapped"
  /\ \E addOk \in BOOLEAN :
       Draw("line", Len(log), Head(lines), lineHeight, lineHeight, addOk,
            /\ lines' = Tail(lines)
            /\ pc' = IF Tail(lines) = <<>> THEN ret ELSE "drawWrapped"
            /\ UNCHANGED <<ret, idx, log>>)

\* y -= lineHeight (or lineHeight * 2) between two blocks
Gap ==
  \E s \in {Stmt} :
      /\ s.op = "gap"
      /\ y' = y - s.amt
      /\ pc' = s.next
      /\ idx' = s.nidx
      /\ lastOp' = "gap"
      /\ UNCHANGED <<req, ret, lines, page, pages, useUnicode, prevDraw,
                     lastDraw, log, status, failed>>

\* await pdfDoc.save() and the response
Save ==
  /\ pc = "save"
  /\ \E saveOk \in BOOLEAN : Finish(IF saveOk THEN "none" ELSE "save")

Next == Start \/ DrawTitle \/ DrawSectionHeader \/ DrawWrapped \/ DrawLine
        \/ Gap \/ Save

(***************************************************************************)
(* The requests the model serves.                                          *)
(***************************************************************************)
\* values of title and text: "", "a", 500 and more than 500 characters,
\* a blank, and Arabic with a space and an accented letter
ValSet ==
  {<<>>, <<<<97, 1>>>>, <<<<97, MAX_VALUE_LEN>>>>, <<<<32, 1>>>>,
   <<<<1605, 1>>, <<1585, 1>>, <<32, 1>>, <<233, 1>>>>}
  \cup {<<<<97, MAX_VALUE_LEN + n>>>> : n \in 1..MaxOver}

ReservedEntries ==
  {[key |-> k, runs |-> v] : k \in {KeyTitle, KeyText}, v \in ValSet}

Affix == {<<>>} \cup {<<e>> : e \in ReservedEntries}

ShortAffix == {<<>>, <<[key |-> KeyTitle, runs |-> <<<<84, 1>>>>]>>}

\* requests that vary title and text; requests of many parameters, some of
\* them over-long; requests of many parameters with a title before or
\* after them; requests without parameters
Requests ==
  {r \in {[pre |-> a, post |-> b, k |-> k, m |-> 0, dup |-> d, path |-> 0] :
            a \in Affix, b \in Affix, k \in 0..MaxFew, d \in BOOLEAN} :
     r.dup => r.k >= 2}
  \cup
  {r \in {[pre |-> <<>>, post |-> <<>>, k |-> k, m |-> m, dup |-> FALSE,
           path |-> 0] : k \in 0..MaxExtras, m \in 0..MaxLong} :
     r.m <= r.k}
  \cup
  {[pre |-> a, post |-> b, k |-> k, m |-> 0, dup |-> FALSE, path |-> 0] :
     a \in ShortAffix, b \in ShortAffix, k \in 0..MaxExtras}
  \cup
  {[pre |-> <<>>, post |-> <<>>, k |-> 0, m |-> 0, dup |-> FALSE, path |-> n] :
     n \in 0..MaxPathLen}

Init ==
  /\ req \in Requests
  /\ pc = "start"
  /\ ret = "done"
  /\ idx = 1
  /\ lines = <<>>
  /\ y = 0
  /\ page = 0
  /\ pages = 0
  /\ useUnicode = TRUE
  /\ lastOp = "none"
  /\ prevDraw = NoDraw
  /\ lastDraw = NoDraw
  /\ log = <<>>
  /\ status = 0
  /\ failed = "none"

Spec == Init /\ [][Next]_vars

(***************************************************************************)
(* wrapText on its own: the texts are every string of at most MaxWrapLen   *)
(* characters over a small alphabet, and runs of at most MaxWords words of *)
(* "W" whose lengths lie around the number of "W" that fill a line.        *)
(***************************************************************************)
WrapAlphabet == {97, 87, 32, 9, 1594}

\* the most "W" that fit the column
WFull == (maxTextWidth * 1000) \div (GlyphWidth(87) * bodySize)

WordLens == {1, WFull - 1, WFull, WFull + 1, 2 * WFull + 1}

RECURSIVE Join(_)
Join(ws) ==
  IF Len(ws) = 1 THEN ws[1] ELSE ws[1] \o <<32>> \o Join(Tail(ws))

WrapInputs ==
  UNION {[1..n -> WrapAlphabet] : n \in 0..MaxWrapLen}
  \cup {Join([j \in 1..Len(ls) |-> Rep(87, ls[j])]) :
          ls \in UNION {[1..n -> WordLens] : n \in 1..MaxWords}}

InitWrap ==
  /\ req = [pre |-> <<>>, post |-> <<>>, k |-> 0, m |-> 0, dup |-> FALSE,
            path |-> 0]
  /\ pc = "wrapText"
  /\ ret = "done"
  /\ idx = 1
  /\ lines = <<>>
  /\ y = TopOfPage
  /\ page = 1
  /\ pages = 1
  /\ useUnicode = FALSE
  /\ lastOp = "none"
  /\ prevDraw = NoDraw
  /\ lastDraw = NoDraw
  /\ \E t \in WrapInputs :
       log = <<[op |-> "wrapped", at |-> "wrapText", idx |-> 1, text |-> t]>>
  /\ status = 0
  /\ failed = "none"

\* one call of wrapText(text, maxTextWidth, font, bodySize)
WrapCall ==
  /\ pc = "wrapText"
  /\ lines' = wrapText(log[1].text, maxTextWidth, bodySize, useUnicode)
  /\ pc' = "wrapped"
  /\ lastOp' = "wrapText"
  /\ UNCHANGED <<req, ret, idx, y, page, pages, useUnicode, prevDraw,
                 lastDraw, log, status, failed>>

NextWrap == WrapCall

SpecWrap == InitWrap /\ [][NextWrap]_vars

(***************************************************************************)
(* Properties.                                                             *)
(***************************************************************************)
\* the calls logged at one statement of the handler, in order
At(label) == SelectSeq(log, LAMBDA e : e.at = label)

EchoMode == Len(params(req)) > 0

\* the entries whose key is neither "title" nor "text", in query order
NonReserved(ps) ==
  SelectSeq(ps, LAMBDA e : ~(e.key \in {KeyTitle, KeyText}))

\* the value of the first entry with this key
FirstValue(ps, key) == SelectSeq(ps, LAMBDA e : e.key = key)[1].val

\* the entries that are the first of their key, in query order
FirstOfKey(ps) ==
  LET tagged == [j \in 1..Len(ps) |-> [j |-> j, e |-> ps[j]]]
      firsts == SelectSeq(tagged,
                  LAMBDA t : \A i \in 1..(t.j - 1) : ps[i].key # t.e.key)
  IN  [j \in 1..Len(firsts) |-> firsts[j].e]

Min2(a, b) == IF a < b THEN a ELSE b

\* "key = value", the value cut to its first MAX_VALUE_LEN characters
KeyEqualsValue(e) ==
  e.key \o <<32, 61, 32>>
        \o SubSeq(e.val, 1, Min2(Len(e.val), MAX_VALUE_LEN))

Range(s) == {s[j] : j \in 1..Len(s)}

DrawOps == {"title", "header", "line"}

\* C1 as stated: the cursor lies within the margins at every point between
\* two draw operations, the spacing decrements between blocks included.
C1_CursorWithinMargins ==
  pages >= 1 => (margin <= y /\ y <= height - margin)

\* C1 amended: the cursor never exceeds height - margin; right after
\* drawTitle, drawSectionHeader and each line of drawWrapped it is at least
\* margin; a spacing decrement may take it below margin, by no more than
\* two line heights.
C1_CursorWithinMarginsAfterDraws ==
  pages >= 1 =>
    /\ y <= height - margin
    /\ y >= margin - 2 * lineHeight
    /\ (lastOp \in DrawOps => y >= margin)

C1_Witness == lastOp = "gap" /\ y < margin /\ lastDraw.kind = "line"

\* C2: every text is drawn on the page allocated last, at a y between the
\* bottom margin and the top margin, also when a paragraph runs over a
\* page boundary.
C2_DrawsWithinMargins ==
  /\ page = pages
  /\ lastDraw.kind # "none" =>
       /\ lastDraw.page = lastDraw.of
       /\ margin <= lastDraw.y
       /\ lastDraw.y <= height - margin

C2_Witness ==
  /\ lastDraw.kind = "line"
  /\ prevDraw.kind = "line"
  /\ prevDraw.blk = lastDraw.blk
  /\ lastDraw.page = prevDraw.page + 1
  /\ lines # <<>>

\* C3: when a title or section header is followed by a wrapped line, the
\* line is drawn on the page of the header.
C3_HeaderKeptWithNextLine ==
  (prevDraw.kind \in {"title", "header"} /\ lastDraw.kind = "line")
    => lastDraw.page = prevDraw.page

\* C4: in the parameters document the first min(n, 50) of the n
\* non-reserved entries are rendered as "key = value" in query order, and
\* the note is drawn, right after the "Extra information" header and before
\* the first of them, exactly when n > 50.
C4_NoteExactlyWhenOverCap ==
  (status = 200 /\ EchoMode) =>
    LET all == NonReserved(params(req))
        n == Len(all)
        kv == At("eKv")
        notes == {j \in 1..Len(log) : log[j].at = "eNote"}
    IN  /\ Len(kv) = Min2(n, MAX_PARAMS)
        /\ \A j \in 1..Len(kv) : kv[j].text = KeyEqualsValue(all[j])
        /\ (notes # {}) <=> (n > MAX_PARAMS)
        /\ \A j \in notes :
             /\ j > 1 /\ log[j - 1].op = "header" /\ log[j - 1].text = HdrExtra
             /\ j < Len(log) /\ log[j + 1].at = "eKv" /\ log[j + 1].idx = 1

\* C5 as stated: a key that is repeated is used once, with the value of
\* its first occurrence; its later occurrences produce no output.
C5_FirstOccurrenceOnly ==
  (status = 200 /\ EchoMode) =>
    LET firsts == FirstOfKey(NonReserved(params(req)))
        kv == At("eKv")
    IN  /\ Len(At("eTitle")) = 1
        /\ Len(At("eText")) <= 1
        /\ Len(kv) = Min2(Len(firsts), MAX_PARAMS)
        /\ \A j \in 1..Len(kv) : kv[j].text = KeyEqualsValue(firsts[j])

\* C5 amended: title and text are used once, with the value of their first
\* occurrence; a non-reserved key that is repeated is rendered once per
\* occurrence, each with its own value.
C5_FirstOccurrenceOfTitleAndText ==
  (status = 200 /\ EchoMode) =>
    LET ps == params(req)
        all == NonReserved(ps)
        keys == {ps[j].key : j \in 1..Len(ps)}
        kv == At("eKv")
        title == IF KeyTitle \in keys /\ FirstValue(ps, KeyTitle) # <<>>
                 THEN FirstValue(ps, KeyTitle) ELSE TitleDefault
        shown == KeyText \in keys /\ FirstValue(ps, KeyText) # <<>>
    IN  /\ Len(At("eTitle")) = 1
        /\ At("eTitle")[1].text = title
        /\ Len(At("eText")) = IF shown THEN 1 ELSE 0
        /\ shown => At("eText")[1].text
                      = SubSeq(FirstValue(ps, KeyText), 1,
                               Min2(Len(FirstValue(ps, KeyText)), MAX_VALUE_LEN))
        /\ Len(kv) = Min2(Len(all), MAX_PARAMS)
        /\ \A j \in 1..Len(kv) : kv[j].text = KeyEqualsValue(all[j])

C5_Witness ==
  /\ status = 200
  /\ req.dup /\ req.k >= 2
  /\ Len(req.pre) = 1 /\ Len(req.post) = 1
  /\ req.pre[1].key = req.post[1].key
  /\ req.pre[1].runs # req.post[1].runs
  /\ Len(At("eKv")) = req.k

\* C6: with a title key of length L among the parameters, the text given
\* to drawTitle is the value cut to its first min(L, 500) characters.
\* (Stated for L >= 1: the empty title is replaced by the default "PDF".)
C6_TitleTruncatedTo500 ==
  (EchoMode /\ Len(At("eTitle")) = 1
     /\ \E j \in 1..Len(params(req)) : params(req)[j].key = KeyTitle) =>
    LET v == FirstValue(params(req), KeyTitle)
    IN  v # <<>> =>
          At("eTitle")[1].text = SubSeq(v, 1, Min2(Len(v), MAX_VALUE_LEN))

NoDoubleSpace(t) ==
  \A j \in 1..(Len(t) - 1) : ~(t[j] = 32 /\ t[j + 1] = 32)

\* C9 as stated: a string of printable ASCII that fits the column is
\* returned as the one line.
C9_ShortStringIsOneLine ==
  (pc = "wrapped" /\ CanEncode(log[1].text)
     /\ textWidth(log[1].text, bodySize) <= maxTextWidth * 1000)
    => lines = <<log[1].text>>

\* C9 amended: a non-empty string of printable ASCII that fits the column,
\* does not begin with a space and has no two spaces in a row is returned
\* as the one line.
C9_ShortNormalisedStringIsOneLine ==
  (pc = "wrapped" /\ CanEncode(log[1].text)
     /\ textWidth(log[1].text, bodySize) <= maxTextWidth * 1000
     /\ log[1].text # <<>> /\ log[1].text[1] # 32
     /\ NoDoubleSpace(log[1].text))
    => lines = <<log[1].text>>

C9_Witness ==
  /\ pc = "wrapped"
  /\ lines = <<log[1].text>>
  /\ Len(log[1].text) >= 3
  /\ \E j \in 1..Len(log[1].text) : log[1].text[j] = 32

\* C10: the "Disclaimer" header is drawn at most once, only the disclaimer
\* sentence is drawn after it, and a request that succeeds has drawn both
\* last.
C10_EndsWithDisclaimer ==
  LET n == Len(log)
      hdrs == {j \in 1..n : log[j].op = "header" /\ log[j].text = HdrDisclaimer}
      sentence == IF EchoMode THEN DisclaimerTranslit ELSE InstrDisclaimer
  IN  /\ Cardinality(hdrs) <= 1
      /\ \A j \in hdrs :
           /\ j >= n - 1
           /\ j = n - 1 => (log[n].op = "wrapped" /\ log[n].text = sentence)
      /\ status = 200 =>
           /\ n - 1 \in hdrs
           /\ lastDraw.kind = "line" /\ lastDraw.blk = n

C10_Witness ==
  /\ status = 200
  /\ EchoMode
  /\ Len(At("eNote")) = 1
  /\ Len(At("eText")) = 0
  /\ pages >= 2
====
